---------------------------- MODULE Spec2Model ----------------------------
(***************************************************************************)
(* A model of src/tidyJSON/src/TidyJSON.py: the text normalizer            *)
(* (clean_json_string), the recursive-descent scanner (TidyJSONParser) as  *)
(* a step machine over one cursor, and the TidyJSON document handle with   *)
(* its decode and encode operations over a one-file filesystem.            *)
(*                                                                         *)
(* Text is a sequence of one-character strings.  The model follows the     *)
(* control flow and the data flow written in each function.  A constructor *)
(* or library call is read by the data its arguments name:                 *)
(*   - ErrorManager(error_type=k, position=p, json_str=s) is the           *)
(*     structured error of kind k at position p;                           *)
(*   - loads(s=x, cls=TidyJSONParser) / load(fp=f, cls=TidyJSONParser) run *)
(*     TidyJSONParser on x / on the file's text and yield its json_out;    *)
(*   - dump(obj=self.json, fp=f, indent=4, ...) writes the serialized      *)
(*     value to f; dumps(strict=False) is handed no value at all and       *)
(*     fails with TypeError.                                               *)
(***************************************************************************)
EXTENDS Integers, Sequences, FiniteSets, TLC

VARIABLES
    json_str,    \* TidyJSONParser.json_str: the normalized text
    index,       \* TidyJSONParser.index: the cursor
    pc,          \* position of the running parse ("idle" when none runs)
    stack,       \* the active parse_collection calls, innermost last
    start,       \* local `start` of parse_string / parse_number
    json_out,    \* TidyJSONParser.json_out
    err,         \* the exception raised by the parse, NoErr when none
    json_input,  \* TidyJSON.json_input
    json,        \* TidyJSON.json
    save_path,   \* TidyJSON.save_path
    fs,          \* the file at FilePath: its text, or NoFile
    ret,         \* outcome of the last decode/encode call on the handle
    hist         \* history of the handle, read only by the properties

pvars == <<json_str, index, pc, stack, start, json_out, err>>
dvars == <<json_input, json, save_path, fs, ret, hist>>
vars == <<json_str, index, pc, stack, start, json_out, err,
          json_input, json, save_path, fs, ret, hist>>

---------------------------------------------------------------------------
(* Characters *)

WS == {" ", "\t", "\n", "\r"}
Digits == {"0", "1", "2", "3", "4", "5", "6", "7", "8", "9"}
DigitVal == [c \in Digits |->
    CASE c = "0" -> 0 [] c = "1" -> 1 [] c = "2" -> 2 [] c = "3" -> 3
      [] c = "4" -> 4 [] c = "5" -> 5 [] c = "6" -> 6 [] c = "7" -> 7
      [] c = "8" -> 8 [] c = "9" -> 9]
DigitChar == [d \in 0..9 |->
    CASE d = 0 -> "0" [] d = 1 -> "1" [] d = 2 -> "2" [] d = 3 -> "3"
      [] d = 4 -> "4" [] d = 5 -> "5" [] d = 6 -> "6" [] d = 7 -> "7"
      [] d = 8 -> "8" [] d = 9 -> "9"]
NumChars == Digits \cup {"-", ".", "e", "E"}
LiteralStarts == {"t", "f", "n"}

\* What get_next_char returns at or past the end of the text (Python False).
NoChar == "<False>"

IsSpace(c) == c \in WS

RECURSIVE Repeat(_, _)
Repeat(c, n) == IF n <= 0 THEN <<>> ELSE <<c>> \o Repeat(c, n - 1)

RECURSIVE Flatten(_)
Flatten(ss) == IF ss = <<>> THEN <<>> ELSE Head(ss) \o Flatten(Tail(ss))

StartsWith(s, p, i) ==
    /\ i + Len(p) <= Len(s)
    /\ \A k \in 1..Len(p) : s[i + k] = p[k]

---------------------------------------------------------------------------
(* clean_json_string *)

RECURSIVE LStrip(_)
LStrip(s) == IF s # <<>> /\ IsSpace(Head(s)) THEN LStrip(Tail(s)) ELSE s

RECURSIVE RStrip(_)
RStrip(s) ==
    IF s # <<>> /\ IsSpace(s[Len(s)]) THEN RStrip(SubSeq(s, 1, Len(s) - 1)) ELSE s

Strip(s) == RStrip(LStrip(s))

\* Positions k >= 3 of s where "*/" starts.
Closers(s) == {k \in 3..(Len(s) - 1) : s[k] = "*" /\ s[k + 1] = "/"}

Min(S) == CHOOSE x \in S : \A y \in S : x <= y

\* re.sub(r"/\*.*?\*/", "", s): leftmost, shortest; "." matches no line feed.
RECURSIVE RemoveComments(_)
RemoveComments(s) ==
    IF Len(s) < 2 THEN s
    ELSE IF /\ s[1] = "/" /\ s[2] = "*"
            /\ Closers(s) # {}
            /\ \A k \in 3..(Min(Closers(s)) - 1) : s[k] # "\n"
         THEN RemoveComments(SubSeq(s, Min(Closers(s)) + 2, Len(s)))
         ELSE <<s[1]>> \o RemoveComments(Tail(s))

\* str.replace of the two characters backslash, c by one space.
RECURSIVE ReplaceEscaped(_, _)
ReplaceEscaped(s, c) ==
    IF Len(s) < 2 THEN s
    ELSE IF s[1] = "\\" /\ s[2] = c
         THEN <<" ">> \o ReplaceEscaped(SubSeq(s, 3, Len(s)), c)
         ELSE <<s[1]>> \o ReplaceEscaped(Tail(s), c)

clean_json_string(s) ==
    Strip(ReplaceEscaped(ReplaceEscaped(RemoveComments(Strip(s)), "n"), "r"))

---------------------------------------------------------------------------
(* Values: the Python objects the parser builds *)

VNull == [t |-> "null"]
VBool(b) == [t |-> "bool", b |-> b]
VInt(i) == [t |-> "int", i |-> i]
VFloat(neg, m, e, inf) == [t |-> "float", neg |-> neg, m |-> m, e |-> e, inf |-> inf]
VStr(s) == [t |-> "str", s |-> s]
VArr(a) == [t |-> "arr", a |-> a]
VObj(o) == [t |-> "obj", o |-> o]

\* Python truthiness of a value (encode's `elif self.json`).
Truthy(v) ==
    CASE v.t = "null" -> FALSE
      [] v.t = "bool" -> v.b
      [] v.t = "int" -> v.i # 0
      [] v.t = "float" -> v.inf \/ v.m # 0
      [] v.t = "str" -> v.s # <<>>
      [] v.t = "arr" -> v.a # <<>>
      [] v.t = "obj" -> v.o # <<>>

\* A slip in the dict: a key assigned again moves to the end.
DictSet_MoveToEnd(o, k, v) ==
    LET Other(e) == e.k # k IN Append(SelectSeq(o, Other), [k |-> k, v |-> v])

\* collection[key] = value on an insertion-ordered dict.
DictSet(o, k, v) ==
    IF \E i \in 1..Len(o) : o[i].k = k
    THEN [i \in 1..Len(o) |-> IF o[i].k = k THEN [k |-> k, v |-> v] ELSE o[i]]
    ELSE Append(o, [k |-> k, v |-> v])

---------------------------------------------------------------------------
(* Numeric conversion: int(number_str) and float(number_str) *)

AllDigits(s) == \A i \in 1..Len(s) : s[i] \in Digits

RECURSIVE DigitsToNat(_)
DigitsToNat(s) ==
    IF s = <<>> THEN 0
    ELSE 10 * DigitsToNat(SubSeq(s, 1, Len(s) - 1)) + DigitVal[s[Len(s)]]

RECURSIVE NatToDigits(_)
NatToDigits(n) ==
    IF n < 10 THEN <<DigitChar[n]>>
    ELSE NatToDigits(n \div 10) \o <<DigitChar[n % 10]>>

Unsigned(s) == IF s # <<>> /\ s[1] = "-" THEN Tail(s) ELSE s
Negative(s) == s # <<>> /\ s[1] = "-"

\* First position of a character of C in s, 0 when there is none.
FirstOf(s, C) ==
    IF \E i \in 1..Len(s) : s[i] \in C
    THEN Min({i \in 1..Len(s) : s[i] \in C})
    ELSE 0

IsIntText(s) == Unsigned(s) # <<>> /\ AllDigits(Unsigned(s))

IntOf(s) ==
    IF Negative(s) THEN 0 - DigitsToNat(Unsigned(s)) ELSE DigitsToNat(Unsigned(s))

\* The parts of a float text: mantissa text (before the first e/E) and
\* exponent text (after it), the mantissa's integer and fraction digits.
MantText(s) ==
    IF FirstOf(s, {"e", "E"}) = 0 THEN s ELSE SubSeq(s, 1, FirstOf(s, {"e", "E"}) - 1)
ExpText(s) == SubSeq(s, FirstOf(s, {"e", "E"}) + 1, Len(s))
HasExp(s) == FirstOf(s, {"e", "E"}) # 0
IntDigits(u) ==
    IF FirstOf(u, {"."}) = 0 THEN u ELSE SubSeq(u, 1, FirstOf(u, {"."}) - 1)
FracDigits(u) ==
    IF FirstOf(u, {"."}) = 0 THEN <<>> ELSE SubSeq(u, FirstOf(u, {"."}) + 1, Len(u))

IsFloatText(s) ==
    LET u == Unsigned(MantText(s)) IN
    /\ AllDigits(IntDigits(u))
    /\ AllDigits(FracDigits(u))
    /\ IntDigits(u) \o FracDigits(u) # <<>>
    /\ (HasExp(s) => IsIntText(ExpText(s)))

RECURSIVE Normalize(_, _)
Normalize(m, e) ==
    IF m = 0 THEN <<0, 0>>
    ELSE IF m % 10 = 0 THEN Normalize(m \div 10, e + 1)
    ELSE <<m, e>>

\* Decimal exponents past which a double is infinite / zero.
MaxDecExp == 308
MinDecExp == -324

FloatOf(s) ==
    LET u == Unsigned(MantText(s))
        m0 == DigitsToNat(IntDigits(u) \o FracDigits(u))
        e0 == (IF HasExp(s) THEN IntOf(ExpText(s)) ELSE 0) - Len(FracDigits(u))
        n == Normalize(m0, e0)
        sci == n[2] + Len(NatToDigits(n[1])) - 1
    IN  IF n[1] # 0 /\ sci > MaxDecExp THEN VFloat(Negative(s), 0, 0, TRUE)
        ELSE IF n[1] = 0 \/ sci < MinDecExp THEN VFloat(Negative(s), 0, 0, FALSE)
        ELSE VFloat(Negative(s), n[1], n[2], FALSE)

\* A slip in the kind test: only the decimal point makes a float.
IsFloatKind_DotOnly(s) == \E i \in 1..Len(s) : s[i] = "."

\* '.' in number_str or 'e' in number_str or 'E' in number_str
IsFloatKind(s) == \E i \in 1..Len(s) : s[i] \in {".", "e", "E"}

\* parse_numeric_value: the value, or Invalid when the conversion raises.
Invalid == [t |-> "invalid"]
parse_numeric_value(s) ==
    IF IsFloatKind(s)
    THEN IF IsFloatText(s) THEN FloatOf(s) ELSE Invalid
    ELSE IF IsIntText(s) THEN VInt(IntOf(s)) ELSE Invalid

---------------------------------------------------------------------------
(* Serialization: json.dump / json.dumps with indent=4 *)

Indent == 4

Chr(c) ==
    CASE c = "\"" -> <<"\\", "\"">>
      [] c = "\\" -> <<"\\", "\\">>
      [] c = "\n" -> <<"\\", "n">>
      [] c = "\r" -> <<"\\", "r">>
      [] c = "\t" -> <<"\\", "t">>
      [] OTHER -> <<c>>

\* The JSON string literal of a Python str (py_encode_basestring_ascii).
RECURSIVE Escape(_)
Escape(s) == IF s = <<>> THEN <<>> ELSE Chr(Head(s)) \o Escape(Tail(s))

Quote(s) == <<"\"">> \o Escape(s) \o <<"\"">>

IntRepr(i) == IF i < 0 THEN <<"-">> \o NatToDigits(0 - i) ELSE NatToDigits(i)

TwoDigits(n) == IF n < 10 THEN <<"0">> \o NatToDigits(n) ELSE NatToDigits(n)

\* float.__repr__ as json's floatstr uses it: digits d, decimal point after
\* the first decpt of them; scientific when decpt <= -4 or decpt > 16.
FloatRepr(f) ==
    LET d == NatToDigits(f.m)
        n == Len(d)
        decpt == f.e + n
        sign == IF f.neg THEN <<"-">> ELSE <<>>
    IN  IF f.inf THEN sign \o <<"I", "n", "f", "i", "n", "i", "t", "y">>
        ELSE IF f.m = 0 THEN sign \o <<"0", ".", "0">>
        ELSE IF decpt > -4 /\ decpt <= 16
        THEN IF decpt <= 0
             THEN sign \o <<"0", ".">> \o Repeat("0", 0 - decpt) \o d
             ELSE IF decpt >= n
             THEN sign \o d \o Repeat("0", decpt - n) \o <<".", "0">>
             ELSE sign \o SubSeq(d, 1, decpt) \o <<".">> \o SubSeq(d, decpt + 1, n)
        ELSE sign \o <<d[1]>>
             \o (IF n > 1 THEN <<".">> \o SubSeq(d, 2, n) ELSE <<>>)
             \o <<"e">>
             \o (IF decpt - 1 < 0 THEN <<"-">> \o TwoDigits(1 - decpt)
                                  ELSE <<"+">> \o TwoDigits(decpt - 1))

NewLine(level) == <<"\n">> \o Repeat(" ", Indent * level)

RECURSIVE Serialize(_, _)
RECURSIVE SerializeItems(_, _)
RECURSIVE SerializePairs(_, _)

\* The elements of a list, each on its own line at `level`.
SerializeItems(a, level) ==
    IF a = <<>> THEN <<>>
    ELSE NewLine(level) \o Serialize(Head(a), level)
         \o (IF Len(a) > 1 THEN <<",">> ELSE <<>>)
         \o SerializeItems(Tail(a), level)

\* The members of a dict, in insertion order, each on its own line.
SerializePairs(o, level) ==
    IF o = <<>> THEN <<>>
    ELSE NewLine(level) \o Quote(Head(o).k) \o <<":", " ">>
         \o Serialize(Head(o).v, level)
         \o (IF Len(o) > 1 THEN <<",">> ELSE <<>>)
         \o SerializePairs(Tail(o), level)

Serialize(v, level) ==
    CASE v.t = "null" -> <<"n", "u", "l", "l">>
      [] v.t = "bool" ->
            IF v.b THEN <<"t", "r", "u", "e">> ELSE <<"f", "a", "l", "s", "e">>
      [] v.t = "int" -> IntRepr(v.i)
      [] v.t = "float" -> FloatRepr(v)
      [] v.t = "str" -> Quote(v.s)
      [] v.t = "arr" ->
            IF v.a = <<>> THEN <<"[", "]">>
            ELSE <<"[">> \o SerializeItems(v.a, level + 1) \o NewLine(level) \o <<"]">>
      [] v.t = "obj" ->
            IF v.o = <<>> THEN <<"{", "}">>
            ELSE <<"{">> \o SerializePairs(v.o, level + 1) \o NewLine(level) \o <<"}">>

---------------------------------------------------------------------------
(* Errors *)

NoErr == [exc |-> "none", what |-> "none", position |-> -1]

\* raise ErrorManager(error_type=kind, position=pos, json_str=self.json_str)
ErrorManager(kind, pos) == [exc |-> "ErrorManager", what |-> kind, position |-> pos]

\* raise ValueError(f"... at index {pos}")
ValueError(msg, pos) == [exc |-> "ValueError", what |-> msg, position |-> pos]

\* False.isdigit(): 'bool' object has no attribute 'isdigit'
AttributeError == [exc |-> "AttributeError", what |-> "isdigit", position |-> -1]

\* dumps() without its obj argument
TypeError == [exc |-> "TypeError", what |-> "dumps", position |-> -1]

\* open() of a file that does not exist
FileNotFoundError == [exc |-> "FileNotFoundError", what |-> "open", position |-> -1]

---------------------------------------------------------------------------
(* TidyJSONParser: the scanner, one step per cursor move *)

get_next_char == IF index < Len(json_str) THEN json_str[index + 1] ELSE NoChar

\* A slip in the dispatch: the minus sign starts no production.
get_parser_method_NoMinus(char) ==
    CASE char = "{" -> "parse_object"
      [] char = "[" -> "parse_array"
      [] char = "\"" -> "parse_string"
      [] char \in LiteralStarts -> "parse_boolean_or_null"
      [] char \in Digits -> "parse_number"
      [] OTHER -> "None"

\* The dispatch table of parse / get_parser_method, for a character.
get_parser_method(char) ==
    CASE char = "{" -> "parse_object"
      [] char = "[" -> "parse_array"
      [] char = "\"" -> "parse_string"
      [] char \in LiteralStarts -> "parse_boolean_or_null"
      [] char \in Digits \cup {"-"} -> "parse_number"
      [] OTHER -> "None"

\* A slip in the reported offset: one past the character.
UnexpectedTokenPosition_OffByOne == index + 1

\* The position parse reports for a character no production starts with.
UnexpectedTokenPosition == index

\* An exception leaves the parse: nothing else of the session changes.
Raise(e) ==
    /\ pc' = "failed"
    /\ err' = e
    /\ UNCHANGED <<json_str, index, stack, start, json_out>>

\* The frame of a parse_collection call.
Frame(end_char) ==
    [end_char |-> end_char,
     collection |-> IF end_char = "}" THEN VObj(<<>>) ELSE VArr(<<>>),
     key |-> <<>>,
     wait |-> "none"]

Top == stack[Len(stack)]
Pop == SubSeq(stack, 1, Len(stack) - 1)
SetTop(f) == [stack EXCEPT ![Len(stack)] = f]

\* A production returns v to its caller: the top-level parse (json_out), or
\* the parse_collection call that asked for a key, a value or an element.
Return(v, k) ==
    IF k = <<>>
    THEN /\ json_out' = v
         /\ pc' = "done"
         /\ stack' = k
    ELSE LET f == k[Len(k)] IN
         /\ json_out' = json_out
         /\ CASE f.wait = "key" ->
                    /\ stack' = [k EXCEPT ![Len(k)] = [f EXCEPT !.key = v.s, !.wait = "none"]]
                    /\ pc' = "expect"
              [] f.wait = "value" ->
                    /\ stack' = [k EXCEPT ![Len(k)] =
                            [f EXCEPT !.collection = VObj(DictSet(f.collection.o, f.key, v)),
                                      !.wait = "none"]]
                    /\ pc' = "coll_ws"
              [] f.wait = "elem" ->
                    /\ stack' = [k EXCEPT ![Len(k)] =
                            [f EXCEPT !.collection = VArr(Append(f.collection.a, v)),
                                      !.wait = "none"]]
                    /\ pc' = "coll_ws"

\* skip_whitespace, one character per step, at its three call sites.
SkipSites == {"parse", "coll_ws", "comma_ws"}
AfterSkip(site) ==
    CASE site = "parse" -> "dispatch"
      [] site = "coll_ws" -> "coll_comma"
      [] site = "comma_ws" -> "coll_loop"

skip_whitespace ==
    /\ pc \in SkipSites
    /\ IF index < Len(json_str) /\ IsSpace(json_str[index + 1])
       THEN index' = index + 1 /\ pc' = pc
       ELSE index' = index /\ pc' = AfterSkip(pc)
    /\ UNCHANGED <<json_str, stack, start, json_out, err>>
    /\ UNCHANGED dvars

\* parse, after its skip_whitespace: pick the production by the character.
parse ==
    /\ pc = "dispatch"
    /\ LET char == get_next_char IN
       IF char = NoChar
       THEN Raise(AttributeError)
       ELSE LET method == get_parser_method(char) IN
            IF method = "None"
            THEN Raise(ErrorManager("UnexpectedToken", UnexpectedTokenPosition))
            ELSE /\ pc' = method
                 /\ stack' = IF method = "parse_object" THEN Append(stack, Frame("}"))
                             ELSE IF method = "parse_array" THEN Append(stack, Frame("]"))
                             ELSE stack
                 /\ UNCHANGED <<json_str, index, start, json_out, err>>
    /\ UNCHANGED dvars

\* parse_collection, entry: skip the opening character.
parse_collection ==
    /\ pc \in {"parse_object", "parse_array"}
    /\ index' = index + 1
    /\ pc' = "coll_loop"
    /\ UNCHANGED <<json_str, stack, start, json_out, err>>
    /\ UNCHANGED dvars

\* A slip in the loop test: the end of the text ends the loop as well.
AtCloser_OrEndOfText == get_next_char \in {Top.end_char, NoChar}

\* The negation of the loop test (char := self.get_next_char()) != end_char
AtCloser == get_next_char = Top.end_char

\* parse_collection, the loop test and the call for the next key/element.
collection_loop ==
    /\ pc = "coll_loop"
    /\ IF AtCloser
       THEN pc' = "coll_end" /\ stack' = stack
       ELSE IF Top.collection.t = "obj"
            THEN pc' = "parse_string" /\ stack' = SetTop([Top EXCEPT !.wait = "key"])
            ELSE pc' = "parse" /\ stack' = SetTop([Top EXCEPT !.wait = "elem"])
    /\ UNCHANGED <<json_str, index, start, json_out, err>>
    /\ UNCHANGED dvars

\* expect_and_skip(delimiter), then the call of parse for the member's value.
expect_and_skip ==
    /\ pc = "expect"
    /\ IF get_next_char # ":"
       THEN Raise(ValueError("Expected", index))
       ELSE /\ index' = index + 1
            /\ pc' = "parse"
            /\ stack' = SetTop([Top EXCEPT !.wait = "value"])
            /\ UNCHANGED <<json_str, start, json_out, err>>
    /\ UNCHANGED dvars

\* parse_collection, after an element: consume a comma when one follows.
collection_comma ==
    /\ pc = "coll_comma"
    /\ IF get_next_char = ","
       THEN index' = index + 1 /\ pc' = "comma_ws"
       ELSE index' = index /\ pc' = "coll_loop"
    /\ UNCHANGED <<json_str, stack, start, json_out, err>>
    /\ UNCHANGED dvars

\* The cursor left behind the closing character by a slip: moved back.
AfterCloser_Rewind == index - 1

\* The cursor left behind the closing character by a slip: not moved.
AfterCloser_Stay == index

\* self.index += 1  # Skip end character ('}' or ']')
AfterCloser == index + 1

\* parse_collection, exit: skip the closing character, return the collection.
collection_end ==
    /\ pc = "coll_end"
    /\ index' = AfterCloser
    /\ Return(Top.collection, Pop)
    /\ UNCHANGED <<json_str, start, err>>
    /\ UNCHANGED dvars

\* parse_string, entry: skip the opening quote.
parse_string ==
    /\ pc = "parse_string"
    /\ index' = index + 1
    /\ start' = index + 1
    /\ pc' = "str_loop"
    /\ UNCHANGED <<json_str, stack, json_out, err>>
    /\ UNCHANGED dvars

\* A slip in the scan: the cursor is left where it is.
AfterChar_Stuck == index

\* self.index += 1 in the loop of parse_string
AfterChar == index + 1

\* parse_string, the scan for the closing quote.
string_loop ==
    /\ pc = "str_loop"
    /\ IF get_next_char = "\""
       THEN pc' = "str_end" /\ UNCHANGED <<json_str, index, stack, start, json_out, err>>
       ELSE IF get_next_char = NoChar
            THEN Raise(ValueError("Unterminated", start))
            ELSE /\ index' = AfterChar
                 /\ UNCHANGED <<json_str, pc, stack, start, json_out, err>>
    /\ UNCHANGED dvars

\* parse_string, exit: skip the closing quote, return the text between.
string_end ==
    /\ pc = "str_end"
    /\ index' = index + 1
    /\ Return(VStr(SubSeq(json_str, start + 1, index)), stack)
    /\ UNCHANGED <<json_str, start, err>>
    /\ UNCHANGED dvars

\* parse_number, entry.
parse_number ==
    /\ pc = "parse_number"
    /\ start' = index
    /\ pc' = "num_loop"
    /\ UNCHANGED <<json_str, index, stack, json_out, err>>
    /\ UNCHANGED dvars

\* parse_number, the scan, and parse_numeric_value on the captured text.
number_loop ==
    /\ pc = "num_loop"
    /\ IF get_next_char # NoChar /\ get_next_char \in NumChars
       THEN /\ index' = index + 1
            /\ UNCHANGED <<json_str, pc, stack, start, json_out, err>>
       ELSE LET value == parse_numeric_value(SubSeq(json_str, start + 1, index)) IN
            IF value = Invalid
            THEN Raise(ValueError("InvalidNumber", start))
            ELSE /\ Return(value, stack)
                 /\ UNCHANGED <<json_str, index, start, err>>
    /\ UNCHANGED dvars

LitTrue == <<"t", "r", "u", "e">>
LitFalse == <<"f", "a", "l", "s", "e">>
LitNull == <<"n", "u", "l", "l">>

\* A slip in the table of literals: every literal taken to be 4 long.
LiteralLength_Four(literal) == 4

\* The length paired with a literal in the table of parse_boolean_or_null.
LiteralLength(literal) == Len(literal)

\* parse_boolean_or_null
parse_boolean_or_null ==
    /\ pc = "parse_boolean_or_null"
    /\ IF StartsWith(json_str, LitTrue, index)
       THEN index' = index + LiteralLength(LitTrue) /\ Return(VBool(TRUE), stack)
                               /\ UNCHANGED <<json_str, start, err>>
       ELSE IF StartsWith(json_str, LitFalse, index)
       THEN index' = index + LiteralLength(LitFalse) /\ Return(VBool(FALSE), stack)
                               /\ UNCHANGED <<json_str, start, err>>
       ELSE IF StartsWith(json_str, LitNull, index)
       THEN index' = index + LiteralLength(LitNull) /\ Return(VNull, stack)
                               /\ UNCHANGED <<json_str, start, err>>
       ELSE Raise(ErrorManager("UnexpectedToken", index))
    /\ UNCHANGED dvars

ParseStep ==
    \/ skip_whitespace
    \/ parse
    \/ parse_collection
    \/ collection_loop
    \/ expect_and_skip
    \/ collection_comma
    \/ collection_end
    \/ parse_string
    \/ string_loop
    \/ string_end
    \/ parse_number
    \/ number_loop
    \/ parse_boolean_or_null

---------------------------------------------------------------------------
(* Input texts *)

\* 
ExEmpty == <<>>

\*  
ExBlank == <<" ">>

\* 0
ExInt0 == <<"0">>

\* 42
ExInt42 == <<"4", "2">>

\* 4.2
ExFloat42 == <<"4", ".", "2">>

\* 1e3
ExFloat1e3 == <<"1", "e", "3">>

\* 1e16
ExFloat1e16 == <<"1", "e", "1", "6">>

\* 0.0
ExFloatZero == <<"0", ".", "0">>

\* -7
ExNegInt == <<"-", "7">>

\* 1.2.3
ExNum123 == <<"1", ".", "2", ".", "3">>

\* 1-2
ExNum1m2 == <<"1", "-", "2">>

\* -
ExNumMinus == <<"-">>

\* 1e
ExNum1e == <<"1", "e">>

\* true
ExTrue == <<"t", "r", "u", "e">>

\* false
ExFalse == <<"f", "a", "l", "s", "e">>

\* null
ExNull == <<"n", "u", "l", "l">>

\* false 
ExFalseSp == <<"f", "a", "l", "s", "e", " ">>

\* [false ]
ExArrFalseSp == <<"[", "f", "a", "l", "s", "e", " ", "]">>

\* [[],[]]
ExArrTwoEmpty == <<"[", "[", "]", ",", "[", "]", "]">>

\* [{},1]
ExArrObj1 == <<"[", "{", "}", ",", "1", "]">>

\* {"":{}}
ExObjEmptyKeyObj == <<"{", "\"", "\"", ":", "{", "}", "}">>

\* [ -1]
ExArrSpNeg == <<"[", " ", "-", "1", "]">>

\* tru
ExTru == <<"t", "r", "u">>

\* nul
ExNul == <<"n", "u", "l">>

\* ""
ExStrEmpty == <<"\"", "\"">>

\* "x"
ExStrX == <<"\"", "x", "\"">>

\* "ab
ExStrOpen == <<"\"", "a", "b">>

\* "a\\"b"
ExStrEsc == <<"\"", "a", "\\", "\"", "b", "\"">>

\* "a\\\\b"
ExStrBs == <<"\"", "a", "\\", "\\", "b", "\"">>

\* []
ExArrEmpty == <<"[", "]">>

\* {}
ExObjEmpty == <<"{", "}">>

\* [ ]
ExArrSp == <<"[", " ", "]">>

\* { }
ExObjSp == <<"{", " ", "}">>

\* [1,2]
ExArr12 == <<"[", "1", ",", "2", "]">>

\* [1 2]
ExArrNoComma == <<"[", "1", " ", "2", "]">>

\* [1,]
ExArrTrail == <<"[", "1", ",", "]">>

\* [[1,],]
ExArrTrailNest == <<"[", "[", "1", ",", "]", ",", "]">>

\* [1
ExArrOpen == <<"[", "1">>

\* [1,
ExArrOpenComma == <<"[", "1", ",">>

\* [[]]
ExArrNest == <<"[", "[", "]", "]">>

\* {"a":1}
ExObjA1 == <<"{", "\"", "a", "\"", ":", "1", "}">>

\* { "a" : 1 }
ExObjA1Sp == <<"{", " ", "\"", "a", "\"", " ", ":", " ", "1", " ", "}">>

\* {"a": 1,}
ExObjTrail == <<"{", "\"", "a", "\"", ":", " ", "1", ",", "}">>

\* {"a": }
ExObjPos == <<"{", "\"", "a", "\"", ":", " ", "}">>

\* {"a":
ExObjOpen == <<"{", "\"", "a", "\"", ":">>

\* {"a":1 "b":2}
ExObjNoComma == <<"{", "\"", "a", "\"", ":", "1", " ", "\"", "b", "\"", ":", "2", "}">>

\* {"a":1,"a":2}
ExObjDup == <<"{", "\"", "a", "\"", ":", "1", ",", "\"", "a", "\"", ":", "2", "}">>

\* {"a":1,"b":2,"a":3}
ExObjDup3 == <<"{", "\"", "a", "\"", ":", "1", ",", "\"", "b", "\"", ":", "2", ",", "\"", "a", "\"", ":", "3", "}">>

\* {a":1}
ExObjBadKey == <<"{", "a", "\"", ":", "1", "}">>

\* {1:2}
ExObjNumKey == <<"{", "1", ":", "2", "}">>

\* {"a" 1}
ExObjNoColon == <<"{", "\"", "a", "\"", " ", "1", "}">>

\* {"a":[1]}
ExObjNestArr == <<"{", "\"", "a", "\"", ":", "[", "1", "]", "}">>

\* {"a":[1,2,{"b":"c"}]}
ExNested == <<"{", "\"", "a", "\"", ":", "[", "1", ",", "2", ",", "{", "\"", "b", "\"", ":", "\"", "c", "\"", "}", "]", "}">>

\* 1 2
ExTwo == <<"1", " ", "2">>

\* true false
ExTrueFalse == <<"t", "r", "u", "e", " ", "f", "a", "l", "s", "e">>

\* {} x
ExObjX == <<"{", "}", " ", "x">>

\* [1,/* note */2]
ExComment == <<"[", "1", ",", "/", "*", " ", "n", "o", "t", "e", " ", "*", "/", "2", "]">>

\* [1,/*\n*/2]
ExCommentNl == <<"[", "1", ",", "/", "*", "\n", "*", "/", "2", "]">>

\* 1/* x */
ExCommentEnd == <<"1", "/", "*", " ", "x", " ", "*", "/">>

\* @
ExGarbage == <<"@">>

\* [1,\\n2]
ExEscNl == <<"[", "1", ",", "\\", "n", "2", "]">>

Examples ==
    {ExEmpty,
     ExBlank,
     ExInt0,
     ExInt42,
     ExFloat42,
     ExFloat1e3,
     ExFloat1e16,
     ExFloatZero,
     ExNegInt,
     ExNum123,
     ExNum1m2,
     ExNumMinus,
     ExNum1e,
     ExTrue,
     ExFalse,
     ExNull,
     ExFalseSp,
     ExArrFalseSp,
     ExArrSpNeg,
     ExArrTwoEmpty,
     ExArrObj1,
     ExObjEmptyKeyObj,
     ExTru,
     ExNul,
     ExStrEmpty,
     ExStrX,
     ExStrOpen,
     ExStrEsc,
     ExStrBs,
     ExArrEmpty,
     ExObjEmpty,
     ExArrSp,
     ExObjSp,
     ExArr12,
     ExArrNoComma,
     ExArrTrail,
     ExArrTrailNest,
     ExArrOpen,
     ExArrOpenComma,
     ExArrNest,
     ExObjA1,
     ExObjA1Sp,
     ExObjTrail,
     ExObjPos,
     ExObjOpen,
     ExObjNoComma,
     ExObjDup,
     ExObjDup3,
     ExObjBadKey,
     ExObjNumKey,
     ExObjNoColon,
     ExObjNestArr,
     ExNested,
     ExTwo,
     ExTrueFalse,
     ExObjX,
     ExComment,
     ExCommentNl,
     ExCommentEnd,
     ExGarbage,
     ExEscNl}

\* Every prefix of every example: input cut off at each point.
Truncations == UNION {{SubSeq(t, 1, n) : n \in 0..Len(t)} : t \in Examples}

TokenSet ==
    {<<"{">>, <<"}">>, <<"[">>, <<"]">>, <<"\"">>, <<":">>, <<",">>, <<" ">>,
     <<"1">>, LitTrue}

\* Every concatenation of at most n tokens.
TokenTexts(n) == {Flatten(ts) : ts \in UNION {[1..k -> TokenSet] : k \in 0..n}}

MaxTokens == 4
MaxDocTokens == 3
MaxOps == 3

ParseInputs == Examples \cup Truncations \cup TokenTexts(MaxTokens)
DocInputs == Examples \cup TokenTexts(MaxDocTokens)

---------------------------------------------------------------------------
(* TidyJSON: the document handle *)

\* The one path of the model's filesystem; as text it is also valid JSON.
FilePath == <<"1">>
\* save_path None
NoPath == <<>>
NoFile == [exists |-> FALSE, text |-> <<>>]
File(text) == [exists |-> TRUE, text |-> text]
InitialFiles == {NoFile, File(ExArrEmpty)}

NoInput == [kind |-> "none", text |-> <<>>]
StrInput(t) == [kind |-> "str", text |-> t]
PathInput(p) == [kind |-> "path", text |-> p]

NoRet == [op |-> "none", exc |-> NoErr, value |-> VNull]
Returned(op, v) == [op |-> op, exc |-> NoErr, value |-> v]
Raised(op, e) == [op |-> op, exc |-> e, value |-> VNull]

\* nops: calls made; last, prev: the last two completed operations; decoded:
\* a decode has succeeded; written: the value encode last wrote to the file.
NoHist == [nops |-> 0, last |-> "none", prev |-> "none", decoded |-> FALSE,
           written |-> [some |-> FALSE, v |-> VNull]]
Completed(h, op) == [h EXCEPT !.prev = h.last, !.last = op]

\* The parser object is left as it ended.
EndSession ==
    /\ pc' = "idle"
    /\ UNCHANGED <<json_str, index, stack, start, json_out, err>>

\* TidyJSONParser(json_str=text): __attrs_post_init__ cleans the text and
\* calls parse.
NewSession(text) ==
    /\ json_str' = clean_json_string(text)
    /\ index' = 0
    /\ pc' = "parse"
    /\ stack' = <<>>
    /\ start' = 0
    /\ json_out' = VNull
    /\ err' = NoErr

\* Whether decode takes json_input for a file to read.
ReadsFile(input) == input.kind = "path"

\* decode, up to the call of the parser (or its own return/raise).
decode ==
    /\ pc = "idle"
    /\ hist.nops < MaxOps
    /\ IF ReadsFile(json_input)
       THEN IF fs.exists
            THEN /\ NewSession(fs.text)
                 /\ ret' = ret
                 /\ hist' = [hist EXCEPT !.nops = @ + 1]
            ELSE /\ ret' = Raised("decode", FileNotFoundError)
                 /\ hist' = Completed([hist EXCEPT !.nops = @ + 1], "decode")
                 /\ UNCHANGED pvars
       ELSE IF json_input.kind = "str"
            THEN /\ NewSession(json_input.text)
                 /\ ret' = ret
                 /\ hist' = [hist EXCEPT !.nops = @ + 1]
            ELSE /\ ret' = Returned("decode", VNull)
                 /\ hist' = Completed([hist EXCEPT !.nops = @ + 1], "decode")
                 /\ UNCHANGED pvars
    /\ UNCHANGED <<json_input, json, save_path, fs>>

\* A slip in decode: the handle's value is cleared when the parse raises.
JsonAfterFailure_Cleared == VNull

\* The value decode stores when the parse it ran has raised.
JsonAfterFailure == json

\* decode, after the parser returned: self.json = <result>; return self.json
decode_return ==
    /\ pc = "done"
    /\ json' = json_out
    /\ ret' = Returned("decode", json_out)
    /\ hist' = Completed([hist EXCEPT !.decoded = TRUE], "decode")
    /\ EndSession
    /\ UNCHANGED <<json_input, save_path, fs>>

\* decode, when the parser raised: the exception leaves decode.
decode_raise ==
    /\ pc = "failed"
    /\ json' = JsonAfterFailure
    /\ ret' = Raised("decode", err)
    /\ hist' = Completed(hist, "decode")
    /\ EndSession
    /\ UNCHANGED <<json_input, save_path, fs>>

\* A slip in encode: the file opened with mode="a".
WriteFile_Append(old, text) == old \o text

\* open(file=self.save_path, mode="w") and dump: the file's new text.
WriteFile(old, text) == text

\* What encode does for the handle's json and save_path: the file after it
\* and the outcome of the call.
EncodeFile(value, path, old) ==
    IF path # NoPath THEN File(WriteFile(old.text, Serialize(value, 0))) ELSE old

EncodeOutcome(value, path) ==
    IF path # NoPath THEN Returned("encode", VNull)
    ELSE IF Truthy(value) THEN Raised("encode", TypeError)
    ELSE Raised("encode", ValueError("NoData", -1))

encode ==
    /\ pc = "idle"
    /\ hist.nops < MaxOps
    /\ fs' = EncodeFile(json, save_path, fs)
    /\ ret' = EncodeOutcome(json, save_path)
    /\ hist' = Completed([hist EXCEPT !.nops = @ + 1,
                                      !.written = IF save_path # NoPath
                                                  THEN [some |-> TRUE, v |-> json]
                                                  ELSE @], "encode")
    /\ UNCHANGED <<json_input, json, save_path>>
    /\ UNCHANGED pvars

\* tidy.json_input = Path(<the file>): point the handle at the file.
assign_json_input ==
    /\ pc = "idle"
    /\ json_input # PathInput(FilePath)
    /\ json_input' = PathInput(FilePath)
    /\ hist' = Completed(hist, "assign")
    /\ UNCHANGED <<json, save_path, fs, ret>>
    /\ UNCHANGED pvars

---------------------------------------------------------------------------
(* Specifications *)

\* A handle whose json_input and save_path the caller has assigned.
Init ==
    /\ json_str = <<>>
    /\ index = 0
    /\ pc = "idle"
    /\ stack = <<>>
    /\ start = 0
    /\ json_out = VNull
    /\ err = NoErr
    /\ json_input \in {NoInput, PathInput(FilePath)} \cup {StrInput(t) : t \in DocInputs}
    /\ json = VNull
    /\ save_path \in {NoPath, FilePath}
    /\ fs \in InitialFiles
    /\ ret = NoRet
    /\ hist = NoHist

Next ==
    \/ decode
    \/ ParseStep
    \/ decode_return
    \/ decode_raise
    \/ encode
    \/ assign_json_input

Spec == Init /\ [][Next]_vars

\* One parse session, as decode starts it on a text, run to its end.
ParseInit ==
    \E t \in ParseInputs :
        /\ json_str = clean_json_string(t)
        /\ index = 0
        /\ pc = "parse"
        /\ stack = <<>>
        /\ start = 0
        /\ json_out = VNull
        /\ err = NoErr
        /\ json_input = StrInput(t)
        /\ json = VNull
        /\ save_path = NoPath
        /\ fs = NoFile
        /\ ret = NoRet
        /\ hist = [NoHist EXCEPT !.nops = 1]

ParseSpec == ParseInit /\ [][ParseStep]_vars

\* The same session with the parser, a sequential program, running on
\* until it returns or raises.
ParseSpecFair == ParseInit /\ [][ParseStep]_vars /\ WF_vars(ParseStep)

---------------------------------------------------------------------------
(* Properties *)

\* The last character of s[1..i] that is not whitespace, NoChar if none.
RECURSIVE LastNonSpace(_, _)
LastNonSpace(s, i) ==
    IF i <= 0 THEN NoChar
    ELSE IF IsSpace(s[i]) THEN LastNonSpace(s, i - 1)
    ELSE s[i]

\* A step that is a call of encode.
EncodeStep == hist'.last = "encode" /\ hist'.nops = hist.nops + 1

\* C1: a container whose closer directly follows a comma (whitespace
\* aside) is never decoded successfully: no parse ends with an array or
\* object whose closing character was preceded by a comma.
C1_TrailingCommaFails ==
    ~ /\ pc = "done"
      /\ json_out.t \in {"arr", "obj"}
      /\ LastNonSpace(json_str, index - 1) = ","

\* C2: decoding the file that encode wrote for a decoded value v succeeds
\* and yields v again (same keys in the same order, same number kinds).
C2_RoundTrip ==
    (/\ pc \in {"done", "failed"}
     /\ ReadsFile(json_input)
     /\ hist.decoded
     /\ hist.written.some)
    => (pc = "done" /\ json_out = hist.written.v)

\* C3: encode on a handle on which no decode has succeeded raises the
\* nothing-to-encode error, and the file has not been written.
C3_EncodeWithoutValue ==
    (hist.last = "encode" /\ ~hist.decoded)
    => (ret = Raised("encode", ValueError("NoData", -1)) /\ ~hist.written.some)

\* C4: after a successful decode, encode without a destination never
\* reports nothing-to-encode (stated for the decoded values other than
\* null, which the handle cannot tell from holding no value).
C4_EncodeAfterDecode ==
    (/\ hist.last = "encode"
     /\ hist.decoded
     /\ json.t # "null"
     /\ save_path = NoPath)
    => ret.exc.what # "NoData"

\* C5: a call of encode on a handle holding a decoded value writes the
\* serialized value to the destination and returns None when a destination
\* is configured, returns the serialized text and leaves the file alone
\* when none is; json and json_input are unchanged either way.
C5_EncodeChannel ==
    [][(EncodeStep /\ hist.decoded /\ json.t # "null")
       => /\ json' = json
          /\ json_input' = json_input
          /\ IF save_path # NoPath
             THEN fs' = File(Serialize(json, 0)) /\ ret' = Returned("encode", VNull)
             ELSE fs' = fs /\ ret' = Returned("encode", VStr(Serialize(json, 0)))]_vars

C7_FailureIsTerminal ==
    /\ [](pc = "failed" => (json_out = VNull /\ err # NoErr))
    /\ [][/\ pc = "failed" =>
                /\ pc' = "idle"
                /\ index' = index
                /\ stack' = stack
                /\ json_out' = json_out
                /\ json' = json
                /\ ret' = Raised("decode", err)
          /\ pc \notin {"idle", "done"} => json' = json]_vars

C7_Witness ==
    /\ pc = "idle"
    /\ ret = Raised("decode", err)
    /\ err.exc = "ValueError"
    /\ stack # <<>>
    /\ json.t = "obj"

\* C8: when decode runs on a string input that names an existing file, the
\* text it parses is the file's text.
C8_SourceByFilesystem ==
    (/\ pc # "idle"
     /\ json_input.kind = "str"
     /\ json_input.text = FilePath
     /\ fs.exists)
    => json_str = clean_json_string(fs.text)

C10_EndOfInput ==
    [][(pc = "dispatch" /\ index >= Len(json_str))
       => (pc' = "failed"
           /\ err' = ErrorManager("UnexpectedToken", Len(json_str)))]_vars

\* C11: in every state of a parse the cursor lies within the text:
\* 0 <= index <= Len(json_str).
C11_CursorBounds == pc # "idle" => (0 <= index /\ index <= Len(json_str))

\* C12: no step of a parse moves the cursor backwards or changes the
\* normalized text.
C12_CursorMonotonic == [][index' >= index /\ json_str' = json_str]_vars

C12_Witness ==
    /\ pc = "done"
    /\ json_str = ExNested
    /\ index = Len(json_str)
    /\ json_out.t = "obj"

\* The value stored under key k of an insertion-ordered dict.
DictGet(o, k) == o[CHOOSE i \in 1..Len(o) : o[i].k = k].v

\* The value a production has just handed to its caller, read after the
\* step: json_out at top level, else the element appended to the caller's
\* array or the value stored under the caller's current key.
LastReturned ==
    IF stack' = <<>> THEN json_out'
    ELSE LET f == stack'[Len(stack')] IN
         IF f.collection.t = "arr"
         THEN f.collection.a[Len(f.collection.a)]
         ELSE DictGet(f.collection.o, f.key)

C14_MalformedNumber ==
    /\ [][(/\ pc = "num_loop"
           /\ (index < Len(json_str) => json_str[index + 1] \notin NumChars)
           /\ parse_numeric_value(SubSeq(json_str, start + 1, index)) = Invalid)
          => /\ pc' = "failed"
             /\ index' = index
             /\ err' = ErrorManager("InvalidCharacter", start)]_vars
    /\ [](json_str = ExNum123 /\ pc \in {"done", "failed"}
            => /\ pc = "failed"
               /\ index = Len(ExNum123)
               /\ err = ErrorManager("InvalidCharacter", 0))

\* The text at the cursor begins with the characters of w.
AtCursor(w) ==
    /\ index + Len(w) <= Len(json_str)
    /\ SubSeq(json_str, index + 1, index + Len(w)) = w

RECURSIVE Compact(_)
RECURSIVE CompactItems(_)
RECURSIVE CompactPairs(_)
CompactItems(a) ==
    IF a = <<>> THEN <<>>
    ELSE IF Len(a) = 1 THEN Compact(a[1])
    ELSE Compact(a[1]) \o <<",">> \o CompactItems(Tail(a))
CompactPairs(o) ==
    IF o = <<>> THEN <<>>
    ELSE LET m == <<"\"">> \o o[1].k \o <<"\"", ":">> \o Compact(o[1].v) IN
         IF Len(o) = 1 THEN m ELSE m \o <<",">> \o CompactPairs(Tail(o))
Compact(v) ==
    CASE v.t = "int" -> IntRepr(v.i)
      [] v.t = "str" -> <<"\"">> \o v.s \o <<"\"">>
      [] v.t = "arr" -> <<"[">> \o CompactItems(v.a) \o <<"]">>
      [] v.t = "obj" -> <<"{">> \o CompactPairs(v.o) \o <<"}">>

\* One member of an object.
Member(k, v) == [k |-> k, v |-> v]

\* The tree of {"a":[1,2,{"b":"c"}]}.
NestedTree ==
    VObj(<<Member(<<"a">>,
                  VArr(<<VInt(1), VInt(2),
                         VObj(<<Member(<<"b">>, VStr(<<"c">>))>>)>>))>>)

\* Trees whose compact texts are among the inputs.
NestedTrees ==
    {VArr(<<>>),
     VObj(<<>>),
     VArr(<<VInt(1), VInt(2)>>),
     VArr(<<VArr(<<>>)>>),
     VArr(<<VArr(<<>>), VArr(<<>>)>>),
     VArr(<<VObj(<<>>), VInt(1)>>),
     VObj(<<Member(<<"a">>, VInt(1))>>),
     VObj(<<Member(<<"a">>, VArr(<<VInt(1)>>))>>),
     VObj(<<Member(<<>>, VObj(<<>>))>>),
     NestedTree}

HasBlockComment(s) ==
    \E i, j \in 1..Len(s) :
        /\ i + 2 <= j
        /\ j + 1 <= Len(s)
        /\ s[i] = "/" /\ s[i + 1] = "*"
        /\ s[j] = "*" /\ s[j + 1] = "/"

\* C17: the text the scanner works on contains no block comment, whatever
\* the comment's body held, line breaks included; [1,2] with a comment
\* between two of its tokens, on one line or over two, decodes to [1,2].
C17_CommentStripping ==
    /\ pc # "idle" => ~HasBlockComment(json_str)
    /\ (pc \in {"done", "failed"} /\ json_input.text \in {ExComment, ExCommentNl})
       => (pc = "done" /\ json_out = VArr(<<VInt(1), VInt(2)>>))

\* C18: where an object expects a key and the character at the cursor is
\* not a double quote, the parse fails with UnexpectedToken at the cursor;
\* neither {a":1} nor {1:2} decodes.
C18_KeysMustBeStrings ==
    /\ [][(/\ pc = "parse_string"
           /\ stack # <<>>
           /\ Top.wait = "key"
           /\ index < Len(json_str)
           /\ json_str[index + 1] # "\"")
          => /\ pc' = "failed"
             /\ index' = index
             /\ err' = ErrorManager("UnexpectedToken", index)]_vars
    /\ [](pc = "done" => json_str \notin {ExObjBadKey, ExObjNumKey})

\* C19: when the string production meets the end of the text before a
\* closing quote, the parse fails with the structured error of kind
\* MissingQuote, and no string is returned.
C19_UnterminatedString ==
    [][(pc = "str_loop" /\ index >= Len(json_str))
       => /\ pc' = "failed"
          /\ err'.exc = "ErrorManager"
          /\ err'.what = "MissingQuote"]_vars

\* C20: the production parse selects is a function of the character at the
\* cursor once whitespace is skipped: { the object production, [ the array
\* production, " the string production, t f n the literal production, a
\* digit or - the number production, and any other character none (the
\* parse fails); selecting moves the cursor over whitespace only.
C20_Dispatch ==
    /\ [][(pc = "dispatch" /\ index < Len(json_str)) =>
            LET c == json_str[index + 1] IN
            /\ ~IsSpace(c)
            /\ index' = index
            /\ json_str' = json_str
            /\ json_out' = json_out
            /\ pc' = CASE c = "{" -> "parse_object"
                       [] c = "[" -> "parse_array"
                       [] c = "\"" -> "parse_string"
                       [] c \in {"t", "f", "n"} -> "parse_boolean_or_null"
                       [] c \in {"0", "1", "2", "3", "4", "5", "6", "7", "8", "9", "-"}
                            -> "parse_number"
                       [] OTHER -> "failed"]_vars
    /\ [][pc = "parse" =>
            \/ index' = index /\ pc' = "dispatch"
            \/ /\ index' = index + 1
               /\ IsSpace(json_str[index + 1])
               /\ pc' = "parse"]_vars

C20_Witness ==
    /\ pc = "parse_number"
    /\ stack # <<>>
    /\ index < Len(json_str)
    /\ json_str[index + 1] = "-"
    /\ index > 0
    /\ IsSpace(json_str[index])

\* C21: after an element or a key/value pair and the whitespace behind it,
\* a character that is neither a comma nor the container's closer makes
\* the parse fail; [1 2] and {"a":1 "b":2} do not decode.
C21_SeparatorRule ==
    /\ [][(/\ pc = "coll_comma"
           /\ index < Len(json_str)
           /\ json_str[index + 1] \notin {",", Top.end_char})
          => pc' = "failed"]_vars
    /\ [](pc = "done" => json_str \notin {ExArrNoComma, ExObjNoComma})

\* C22: in an object, when the character after a key is not a colon, the
\* parse fails with UnexpectedToken at the offset where the colon was
\* expected; the cursor stays there and the object gets no entry for the
\* key.
C22_MissingColon ==
    [][(pc = "expect" /\ (index >= Len(json_str) \/ json_str[index + 1] # ":"))
       => /\ pc' = "failed"
          /\ index' = index
          /\ stack' = stack
          /\ err' = ErrorManager("UnexpectedToken", index)]_vars

\* C23: whitespace between two tokens does not change the decoded value:
\* [ ] decodes to the empty array, { } to the empty object, and
\* { "a" : 1 } to the value of {"a":1}.
C23_WhitespaceBetweenTokens ==
    pc \in {"done", "failed"} =>
        /\ json_str = ExArrSp => (pc = "done" /\ json_out = VArr(<<>>))
        /\ json_str = ExObjSp => (pc = "done" /\ json_out = VObj(<<>>))
        /\ json_str = ExObjA1Sp =>
             (pc = "done" /\ json_out = VObj(<<Member(<<"a">>, VInt(1))>>))

\* The keys of the entries of an object are pairwise different.
DistinctKeys(o) == \A i, j \in 1..Len(o) : o[i].k = o[j].k => i = j

\* C24: a key that occurs again in one object keeps its single entry at the
\* place where it was first seen and takes the later value, the other
\* entries staying as and where they are; a new key is added at the end;
\* {"a":1,"a":2} decodes to {a: 2} and {"a":1,"b":2,"a":3} to {a: 3, b: 2}.
C24_DuplicateKeys ==
    /\ [](\A n \in 1..Len(stack) :
            stack[n].collection.t = "obj" => DistinctKeys(stack[n].collection.o))
    /\ [](pc = "done" =>
            /\ json_out.t = "obj" => DistinctKeys(json_out.o)
            /\ json_str = ExObjDup => json_out = VObj(<<Member(<<"a">>, VInt(2))>>)
            /\ json_str = ExObjDup3 =>
                 json_out = VObj(<<Member(<<"a">>, VInt(3)), Member(<<"b">>, VInt(2))>>))
    /\ [][(/\ stack' # <<>>
           /\ Len(stack') <= Len(stack)
           /\ stack[Len(stack')].wait = "value"
           /\ stack'[Len(stack')].wait = "none")
          => LET k == stack[Len(stack')].key
                 old == stack[Len(stack')].collection.o
                 new == stack'[Len(stack')].collection.o
             IN  IF \E i \in 1..Len(old) : old[i].k = k
                 THEN /\ Len(new) = Len(old)
                      /\ \A i \in 1..Len(old) :
                            /\ new[i].k = old[i].k
                            /\ old[i].k # k => new[i] = old[i]
                            /\ old[i].k = k => new[i].v = LastReturned
                 ELSE new = Append(old, Member(k, LastReturned))]_vars

C24_Witness ==
    /\ pc = "done"
    /\ json_str = ExObjDup3
    /\ json_out = VObj(<<Member(<<"a">>, VInt(3)), Member(<<"b">>, VInt(2))>>)

\* C25: the string production does not end at a double quote that follows
\* a backslash: there the scan goes on, and the string "a\"b" (with the
\* backslash in the text) is returned as the five characters between its
\* outer quotes, the cursor one past the closing quote.
C25_StringProduction ==
    /\ [][(/\ pc = "str_loop"
           /\ index < Len(json_str)
           /\ json_str[index + 1] = "\""
           /\ index > start
           /\ json_str[index] = "\\"
           /\ (index - 1 > start => json_str[index - 1] # "\\"))
          => (pc' = "str_loop" /\ index' = index + 1)]_vars
    /\ [](json_str = ExStrEsc /\ pc \in {"done", "failed"} =>
            /\ pc = "done"
            /\ json_out = VStr(<<"a", "\\", "\"", "b">>)
            /\ index = Len(ExStrEsc))

\* The closing character of a container value.
CloserOf(v) == IF v.t = "obj" THEN "}" ELSE "]"

\* C26: a container production returns only with its own closer under the
\* cursor, which it then passes; nothing else takes a container off the
\* stack of open containers; a finished parse has closed every container
\* it opened, and a text that ends inside a container fails and returns
\* nothing.
C26_CloserRequired ==
    /\ [][pc = "coll_end" =>
            /\ index < Len(json_str)
            /\ json_str[index + 1] = CloserOf(Top.collection)
            /\ Top.end_char = CloserOf(Top.collection)]_vars
    /\ [][Len(stack') < Len(stack) =>
            (pc = "coll_end" /\ Len(stack') = Len(stack) - 1)]_vars
    /\ [](pc = "done" =>
            /\ stack = <<>>
            /\ json_out.t \in {"arr", "obj"} =>
                 /\ 1 <= index
                 /\ index <= Len(json_str)
                 /\ json_str[index] = CloserOf(json_out))
    /\ []((pc \in {"done", "failed"} /\ stack # <<>>)
            => (pc = "failed" /\ json_out = VNull))
    /\ []((pc \in {"done", "failed"}
           /\ json_str \in {ExArrOpen, ExArrOpenComma, ExObjOpen, <<"[">>, <<"{">>,
                             <<"[", "[", "]">>})
            => (pc = "failed" /\ json_out = VNull /\ stack # <<>>))

C26_Witness ==
    /\ pc = "failed"
    /\ json_str = <<"[", "[", "]">>
    /\ index = Len(json_str)
    /\ Len(stack) = 1
    /\ Top.collection = VArr(<<VArr(<<>>)>>)
    /\ json_out = VNull

\* The number of characters the open containers account for: one for each
\* opening character and at least one for each element stored so far.
RECURSIVE Consumed(_)
Consumed(k) ==
    IF k = <<>> THEN 0
    ELSE LET f == k[Len(k)] IN
         Consumed(SubSeq(k, 1, Len(k) - 1)) + 1
         + (IF f.collection.t = "arr" THEN Len(f.collection.a) ELSE Len(f.collection.o))

\* C27: every parse comes to an end, returning or failing; a pass of the
\* whitespace, string or number loop that stays in the loop moves the
\* cursor on by one, and the container loops have consumed at least one
\* character for each container opened (once its opening character is
\* passed) and each element stored.
C27_Termination ==
    /\ <>(pc \in {"done", "failed"})
    /\ [][(pc' = pc /\ pc \in SkipSites \cup {"str_loop", "num_loop"})
            => index' = index + 1]_vars
    /\ [](index >= Consumed(stack)
                    - (IF pc \in {"parse_object", "parse_array"} THEN 1 ELSE 0))
    /\ [](pc \in {"done", "failed"} => ~ENABLED ParseStep)

\* The string loop has run to the end of a truncated text and failed.
C27_Witness ==
    /\ pc = "failed"
    /\ json_str = ExStrOpen
    /\ index = Len(json_str)
    /\ start = 1
    /\ err = ValueError("Unterminated", 1)

\* C28: a parse that succeeds has read the whole text: the cursor is at the
\* end of the normalized text, so 1 2, true false and {} x do not decode.
C28_WholeInput ==
    pc = "done" =>
        /\ index = Len(json_str)
        /\ json_str \notin {ExTwo, ExTrueFalse, ExObjX}

===========================================================================
